---- MODULE Spec2Model ----
(***************************************************************************)
(* Model of labrat-0/linkedin-jobs-scraper: the RateLimiter (utils.py),    *)
(* the retrying fetch_html primitive (utils.py) and the scrape() generator *)
(* (scraper.py).                                                           *)
(*                                                                         *)
(* Time is kept in whole seconds and relative: instead of the absolute     *)
(* loop time, the model keeps the age of _last_request (now minus          *)
(* _last_request, saturated at the interval, beyond which wait() behaves   *)
(* the same) and the time each asyncio.sleep still has to run.  Code       *)
(* between two awaits runs in zero time and atomically, as on an asyncio   *)
(* event loop.                                                             *)
(***************************************************************************)
EXTENDS Integers, Sequences, FiniteSets, TLC

\* ---------------------------------------------------------------- bounds
NumCallers == 2        \* concurrent bare callers of RateLimiter.wait()
MaxCards == 2          \* card elements on one search-results page
MaxResults == 2        \* largest config.max_results tried
MaxItems == 2          \* <li> items in the criteria list of a detail page

\* ------------------------------------------------------ program constants
REQUEST_INTERVAL == 5
MAX_RETRIES == 3
RETRY_BASE_DELAY == 15
SERVER_ERROR_DELAY == 10

Scraper == 0
Callers == 1..NumCallers
Tasks == {Scraper} \cup Callers

Min(a, b) == IF a < b THEN a ELSE b
Max(a, b) == IF a > b THEN a ELSE b

RECURSIVE Pow2(_)
Pow2(n) == IF n = 0 THEN 1 ELSE 2 * Pow2(n - 1)

VARIABLES
    age,            \* loop.time() - RateLimiter._last_request, saturated
    locked,         \* RateLimiter._lock is held
    waiters,        \* FIFO of tasks suspended in _lock.acquire()
    pc,             \* per task: where the task is suspended
    remaining,      \* per task: seconds its asyncio.sleep still has to run
    contended,      \* per task: its current wait() call had to queue
    returns,        \* observer: number of wait() returns so far (capped at 2)
    since_return,   \* observer: time since the latest wait() return, saturated
    gap,            \* observer: since_return at the latest return (-1: none yet)
    gap_contended,  \* observer: the call that produced gap had queued
    url,            \* fetch_html: the url (and params) of the running call
    attempt,        \* fetch_html: loop variable of `for attempt in range(..)`
    waits,          \* observer: rate_limiter.wait() calls made by this call
    sleeps,         \* observer: delays of the backoff sleeps of this call
    outcomes,       \* observer: what each client.get of this call produced
    fetch_result,   \* fetch_html: the value returned (Pending while running)
    max_results,    \* config.max_results
    fetch_job_details, \* config.fetch_job_details
    spc,            \* scrape(): where the generator is suspended
    first_page,     \* observer: what the fetch of the first page returned
    total_results,  \* scrape(): local total_results ({} is None)
    jobs,           \* scrape(): cards of the current page not yet done
    count,          \* scrape(): local count
    start,          \* scrape(): local start
    yielded,        \* observer: the records yielded so far
    fetch_log,      \* observer: the urls fetch_html was called with
    results,        \* observer: what each returned fetch_html call returned
    discovered,     \* observer: job ids of the fetched pages, document order
    pulls,          \* observer: number of items the consumer has asked for
    html_in,        \* parser run: the document given to the parser
    jobs_out,       \* parser run: {} before the parser returns, then {its list}
    job_in,         \* enrichment run: the job given to the enrichment
    job_out         \* enrichment run: {} before it returns, then {its job}

rlvars == <<age, locked, waiters, contended, returns, since_return, gap,
            gap_contended>>
fvars == <<url, attempt, waits, sleeps, outcomes, fetch_result>>
svars == <<max_results, fetch_job_details, spc, first_page,
           total_results, jobs, count, start, yielded, fetch_log,
           results, discovered, pulls>>
pvars == <<html_in, jobs_out, job_in, job_out>>
vars == <<age, locked, waiters, pc, remaining, contended, returns,
          since_return, gap, gap_contended, url, attempt, waits, sleeps,
          outcomes, fetch_result, max_results, fetch_job_details, spc,
          first_page, total_results, jobs, count, start, yielded,
          fetch_log, results, discovered, pulls, html_in, jobs_out,
          job_in, job_out>>

\* ------------------------------------------------------------ RateLimiter

\* utils.py:50  wait_time = self._interval - elapsed
WaitTimeNone(elapsed) == 0
WaitTime(elapsed) == REQUEST_INTERVAL - elapsed

\* asyncio.Lock.acquire(): taken at once only when free and nobody queued
LockAlwaysFree(l, w) == TRUE
LockFree(l, w) == ~l /\ w = <<>>

\* where a task continues when its wait() call returns
WaitReturnPc(t) == IF t = Scraper THEN "get" ELSE "idle"

\* utils.py:53 and the end of the `async with`: record the timestamp,
\* release the lock, return to the caller
WaitFinishKeepsLock(t) ==
    /\ age' = 0
    /\ locked' = TRUE
    /\ pc' = [pc EXCEPT ![t] = WaitReturnPc(t)]
    /\ remaining' = [remaining EXCEPT ![t] = 0]
    /\ contended' = [contended EXCEPT ![t] = FALSE]
    /\ returns' = Min(returns + 1, 2)
    /\ gap' = IF returns > 0 THEN since_return ELSE -1
    /\ gap_contended' = contended[t]
    /\ since_return' = 0
WaitFinish(t) ==
    /\ age' = 0
    /\ locked' = FALSE
    /\ pc' = [pc EXCEPT ![t] = WaitReturnPc(t)]
    /\ remaining' = [remaining EXCEPT ![t] = 0]
    /\ contended' = [contended EXCEPT ![t] = FALSE]
    /\ returns' = Min(returns + 1, 2)
    /\ gap' = IF returns > 0 THEN since_return ELSE -1
    /\ gap_contended' = contended[t]
    /\ since_return' = 0

\* utils.py:47-53 entered with the lock: read the clock, sleep if needed
WaitCritical(t, queued) ==
    IF age < REQUEST_INTERVAL
    THEN /\ locked' = TRUE
         /\ remaining' = [remaining EXCEPT ![t] = WaitTime(age)]
         /\ pc' = [pc EXCEPT ![t] = "rl_sleep"]
         /\ contended' = [contended EXCEPT ![t] = queued]
         /\ UNCHANGED <<age, returns, since_return, gap, gap_contended>>
    ELSE /\ WaitFinish(t)

\* utils.py:44-46 the call of wait(): take the lock or queue for it
WaitCall(t) ==
    IF LockFree(locked, waiters)
    THEN /\ WaitCritical(t, FALSE)
         /\ UNCHANGED waiters
    ELSE /\ waiters' = Append(waiters, t)
         /\ pc' = [pc EXCEPT ![t] = "queued"]
         /\ contended' = [contended EXCEPT ![t] = TRUE]
         /\ UNCHANGED <<age, locked, remaining, returns, since_return, gap,
                        gap_contended>>

\* a bare caller calls rate_limiter.wait()
CallWait(t) ==
    /\ t \in Callers
    /\ pc[t] = "idle"
    /\ WaitCall(t)
    /\ UNCHANGED fvars
    /\ UNCHANGED svars
    /\ UNCHANGED pvars

\* asyncio.Lock: the released lock goes to the first queued task
LockWake(t) ==
    /\ pc[t] = "queued"
    /\ ~locked
    /\ waiters # <<>>
    /\ Head(waiters) = t
    /\ waiters' = Tail(waiters)
    /\ WaitCritical(t, TRUE)
    /\ UNCHANGED fvars
    /\ UNCHANGED svars
    /\ UNCHANGED pvars

\* utils.py:52-53 the sleep inside wait() is over
WaitWake(t) ==
    /\ pc[t] = "rl_sleep"
    /\ remaining[t] = 0
    /\ WaitFinish(t)
    /\ UNCHANGED waiters
    /\ UNCHANGED fvars
    /\ UNCHANGED svars
    /\ UNCHANGED pvars

\* d seconds pass
Tick(d) ==
    /\ age' = Min(age + d, REQUEST_INTERVAL)
    /\ since_return' = Min(since_return + d, REQUEST_INTERVAL)
    /\ remaining' = [t \in Tasks |-> Max(remaining[t] - d, 0)]
    /\ UNCHANGED <<locked, waiters, pc, contended, returns, gap, gap_contended>>
    /\ UNCHANGED fvars
    /\ UNCHANGED svars
    /\ UNCHANGED pvars

\* ------------------------------------------------------------- fetch_html

\* HTML documents: the empty text, a search-results page, a detail page
\* (a field of a detail page is {} when its element is not in the page)
EmptyDetail == [description |-> {}, salary |-> {}, criteria |-> {},
                applicantCount |-> {}]
EmptyHtml == [kind |-> "empty", total |-> {}, cards |-> <<>>,
              detail |-> EmptyDetail]
SearchHtml(total, cards) == [kind |-> "search", total |-> total,
                             cards |-> cards, detail |-> EmptyDetail]
DetailHtml(d) == [kind |-> "detail", total |-> {}, cards |-> <<>>,
                  detail |-> d]

\* values of `str | None` returned by fetch_html
None == [kind |-> "None", total |-> {}, cards |-> <<>>, detail |-> EmptyDetail]
Pending == [kind |-> "pending", total |-> {}, cards |-> <<>>,
            detail |-> EmptyDetail]

\* the urls fetch_html is called with
NoUrl == [endpoint |-> "", start |-> 0, job |-> ""]
SearchUrl == [endpoint |-> "search", start |-> 0, job |-> ""]
GuestUrl(s) == [endpoint |-> "guest", start |-> s, job |-> ""]
DetailUrl(id) == [endpoint |-> "detail", start |-> 0, job |-> id]

\* what one client.get can produce: a response or a raised exception
Resp(status, text) == [kind |-> "response", status |-> status, text |-> text,
                       exc |-> ""]
Exc(name) == [kind |-> "exception", status |-> 0, text |-> EmptyHtml,
              exc |-> name]

\* utils.py:82  for attempt in range(MAX_RETRIES)
MoreAttemptsInclusive(a) == a <= MAX_RETRIES
MoreAttempts(a) == a < MAX_RETRIES

\* utils.py:99  return response.text
ReturnedTextDropped(o) == [kind |-> "None", total |-> {}, cards |-> <<>>,
                          detail |-> EmptyDetail]
ReturnedText(o) == o.text

\* httpx: TimeoutException is a subclass of HTTPError
TimeoutExceptions == {"ConnectTimeout", "ReadTimeout", "WriteTimeout",
                      "PoolTimeout"}
HTTPErrorsStatusOnly == {"HTTPStatusError"}
HTTPErrors == TimeoutExceptions \cup
              {"ConnectError", "ReadError", "RemoteProtocolError",
               "TooManyRedirects"}

\* utils.py:102,111  delay = RETRY_BASE_DELAY * (2 ** attempt)
BackoffDelayNotAfterLast(a) ==
    IF a + 1 < MAX_RETRIES THEN RETRY_BASE_DELAY * Pow2(a) ELSE 0
BackoffDelayConstant(a) == RETRY_BASE_DELAY
BackoffDelay(a) == RETRY_BASE_DELAY * Pow2(a)

\* utils.py:129,141,150  delay = 10.0 * (attempt + 1)
LinearDelayFromZero(a) == SERVER_ERROR_DELAY * a
LinearDelay(a) == SERVER_ERROR_DELAY * (a + 1)

\* utils.py:94-156  which branch of the attempt body an outcome takes
DispositionRetryNotFound(o) ==
    IF o.kind = "response"
    THEN CASE o.status = 200 -> "return_text"
           [] o.status = 429 -> "exp_backoff"
           [] o.status = 403 -> "exp_backoff"
           [] o.status = 400 -> "return_none"
           [] o.status = 404 -> "linear_backoff"
           [] o.status >= 500 -> "linear_backoff"
           [] OTHER -> "return_none"
    ELSE IF o.exc \in TimeoutExceptions THEN "linear_backoff"
    ELSE IF o.exc \in HTTPErrors THEN "linear_backoff"
    ELSE "raise"
Disposition(o) ==
    IF o.kind = "response"
    THEN CASE o.status = 200 -> "return_text"
           [] o.status = 429 -> "exp_backoff"
           [] o.status = 403 -> "exp_backoff"
           [] o.status = 400 -> "return_none"
           [] o.status = 404 -> "return_none"
           [] o.status >= 500 -> "linear_backoff"
           [] OTHER -> "return_none"
    ELSE IF o.exc \in TimeoutExceptions THEN "linear_backoff"
    ELSE IF o.exc \in HTTPErrors THEN "linear_backoff"
    ELSE "raise"

\* utils.py:72-83  the call of fetch_html, up to the head of its loop
FetchCall(u) ==
    /\ url' = u
    /\ attempt' = 0
    /\ waits' = 0
    /\ sleeps' = <<>>
    /\ outcomes' = <<>>
    /\ fetch_result' = Pending
    /\ pc' = [pc EXCEPT ![Scraper] = "f_loop"]
    /\ UNCHANGED <<remaining>>
    /\ UNCHANGED rlvars

\* utils.py:82-83,158-159  loop head: the next attempt starts with
\* rate_limiter.wait(), or the retries are exhausted
FetchAttempt ==
    /\ pc[Scraper] = "f_loop"
    /\ IF MoreAttempts(attempt)
       THEN /\ waits' = waits + 1
            /\ WaitCall(Scraper)
            /\ UNCHANGED <<url, attempt, sleeps, outcomes, fetch_result>>
       ELSE /\ fetch_result' = None
            /\ pc' = [pc EXCEPT ![Scraper] = "f_done"]
            /\ UNCHANGED <<remaining, url, attempt, waits, sleeps, outcomes>>
            /\ UNCHANGED rlvars
    /\ UNCHANGED svars
    /\ UNCHANGED pvars

\* utils.py:86-156  client.get finishes with outcome o
Response(o) ==
    /\ pc[Scraper] = "get"
    /\ outcomes' = Append(outcomes, o)
    /\ LET d == Disposition(o) IN
       CASE d = "return_text" ->
              /\ fetch_result' = ReturnedText(o)
              /\ pc' = [pc EXCEPT ![Scraper] = "f_done"]
              /\ UNCHANGED <<remaining, sleeps>>
         [] d = "return_none" ->
              /\ fetch_result' = None
              /\ pc' = [pc EXCEPT ![Scraper] = "f_done"]
              /\ UNCHANGED <<remaining, sleeps>>
         [] d = "exp_backoff" ->
              /\ sleeps' = Append(sleeps, BackoffDelay(attempt))
              /\ remaining' = [remaining EXCEPT ![Scraper] = BackoffDelay(attempt)]
              /\ pc' = [pc EXCEPT ![Scraper] = "backoff"]
              /\ UNCHANGED fetch_result
         [] d = "linear_backoff" ->
              /\ sleeps' = Append(sleeps, LinearDelay(attempt))
              /\ remaining' = [remaining EXCEPT ![Scraper] = LinearDelay(attempt)]
              /\ pc' = [pc EXCEPT ![Scraper] = "backoff"]
              /\ UNCHANGED fetch_result
         [] OTHER ->
              /\ pc' = [pc EXCEPT ![Scraper] = "f_raised"]
              /\ UNCHANGED <<remaining, sleeps, fetch_result>>
    /\ UNCHANGED <<url, attempt, waits>>
    /\ UNCHANGED rlvars
    /\ UNCHANGED svars
    /\ UNCHANGED pvars

\* utils.py:107-108 etc.  the backoff sleep is over: `continue`
BackoffWake ==
    /\ pc[Scraper] = "backoff"
    /\ remaining[Scraper] = 0
    /\ attempt' = attempt + 1
    /\ pc' = [pc EXCEPT ![Scraper] = "f_loop"]
    /\ UNCHANGED <<remaining, url, waits, sleeps, outcomes, fetch_result>>
    /\ UNCHANGED rlvars
    /\ UNCHANGED svars
    /\ UNCHANGED pvars

\* time passes up to the scraper's next timer; when it has none, by one
\* second (Advance) or by a whole interval (LongAdvance)
Advance == IF remaining[Scraper] > 0 THEN {remaining[Scraper]} ELSE {1}
LongAdvance ==
    IF remaining[Scraper] > 0 THEN {remaining[Scraper]} ELSE {REQUEST_INTERVAL}

InitFetch ==
    /\ url = NoUrl
    /\ attempt = 0
    /\ waits = 0
    /\ sleeps = <<>>
    /\ outcomes = <<>>
    /\ fetch_result = Pending

\* --- a caller that calls fetch_html again and again
SamplePage == SearchHtml({40}, <<>>)
FetchBodies == {EmptyHtml, SamplePage}
FetchStatuses == {200, 204, 400, 403, 404, 429, 500, 503}
FetchExceptions == {"ReadTimeout", "ConnectError"}
FetchOutcomes ==
    {Resp(200, b) : b \in FetchBodies}
    \cup {Resp(st, EmptyHtml) : st \in FetchStatuses \ {200}}
    \cup {Exc(e) : e \in FetchExceptions}
FetchUrls == {SearchUrl, GuestUrl(25), DetailUrl("1")}

CallFetch(u) ==
    /\ pc[Scraper] \in {"idle", "f_done"}
    /\ FetchCall(u)
    /\ UNCHANGED svars
    /\ UNCHANGED pvars

NextFetch ==
    \/ \E u \in FetchUrls : CallFetch(u)
    \/ FetchAttempt
    \/ WaitWake(Scraper)
    \/ \E o \in FetchOutcomes : Response(o)
    \/ BackoffWake
    \/ \E d \in Advance : Tick(d)


\* ----------------------------------------------------------------- scrape

\* --- dicts of str -> str (a job is one)
EmptyDict == <<>>
GetNoDefault(dict, k) == IF k \in DOMAIN dict THEN dict[k] ELSE "None"
Get(dict, k) == IF k \in DOMAIN dict THEN dict[k] ELSE ""
Put(dict, k, v) == (k :> v) @@ dict

\* `not html` for a `str | None`
FalsyOnlyNone(html) == html.kind = "None"
Falsy(html) == html.kind \in {"None", "empty"}

\* --- the data-entity-urn attribute of an element
NoUrn == [present |-> FALSE, marker |-> FALSE, tail |-> ""]
OtherUrn == [present |-> TRUE, marker |-> FALSE, tail |-> ""]
JobUrn(id) == [present |-> TRUE, marker |-> TRUE, tail |-> id]
NoLink == [found |-> FALSE, path |-> "", query |-> ""]

\* scraper.py:194-207  the job id of a card element: its own urn when that
\* holds 'jobPosting:', else the urn of its first descendant carrying one
CardJobIdAnyUrn(card) ==
    IF card.urn.present
    THEN (IF card.urn.marker THEN card.urn.tail ELSE "urn")
    ELSE IF card.inner.present /\ card.inner.marker
         THEN card.inner.tail
         ELSE ""
CardJobId(card) ==
    IF card.urn.present /\ card.urn.marker
    THEN card.urn.tail
    ELSE IF card.inner.present /\ card.inner.marker
         THEN card.inner.tail
         ELSE ""

\* scraper.py:190-257  _parse_single_card: card.texts are the texts the
\* selectors find (title, company, companyUrl, location, postedDate,
\* postedDateTimestamp, salary), card.link the anchor of the listing
ParseSingleCard(card) ==
    LET id == CardJobId(card) IN
    IF id = ""
    THEN EmptyDict
    ELSE Put(Put(card.texts, "jobId", id), "url",
             IF card.link.found
             THEN card.link.path
             ELSE "https://www.linkedin.com/jobs/view/" \o id)

\* scraper.py:180-188  _parse_search_cards: the cards with a job id, in
\* document order
RECURSIVE ParseCardsReversed(_)
ParseCardsReversed(cards) ==
    IF cards = <<>>
    THEN <<>>
    ELSE LET job == ParseSingleCard(Head(cards)) IN
         IF job # EmptyDict /\ Get(job, "jobId") # ""
         THEN ParseCardsReversed(Tail(cards)) \o <<job>>
         ELSE ParseCardsReversed(Tail(cards))
RECURSIVE ParseCards(_)
ParseCards(cards) ==
    IF cards = <<>>
    THEN <<>>
    ELSE LET job == ParseSingleCard(Head(cards)) IN
         IF job # EmptyDict /\ Get(job, "jobId") # ""
         THEN <<job>> \o ParseCards(Tail(cards))
         ELSE ParseCards(Tail(cards))
ParseSearchCards(html) == ParseCards(html.cards)

\* scraper.py:115-150  _parse_total_results
ParseTotalResults(html) == html.total

\* scraper.py:298-305  the field a criteria heading routes to; a heading
\* is given by the set of keywords its lower-cased text contains
CriteriaFieldFunctionFirst(heading) ==
    IF "function" \in heading THEN "jobFunction"
    ELSE IF "seniority" \in heading THEN "seniorityLevel"
    ELSE IF "employment" \in heading \/ "type" \in heading THEN "employmentType"
    ELSE IF "industr" \in heading THEN "industries"
    ELSE ""
CriteriaField(heading) ==
    IF "seniority" \in heading THEN "seniorityLevel"
    ELSE IF "employment" \in heading \/ "type" \in heading THEN "employmentType"
    ELSE IF "function" \in heading THEN "jobFunction"
    ELSE IF "industr" \in heading THEN "industries"
    ELSE ""

\* scraper.py:289-305  the loop over the criteria items
RECURSIVE ApplyCriteria(_, _)
ApplyCriteria(job, items) ==
    IF items = <<>>
    THEN job
    ELSE LET item == Head(items)
             field == IF item.heading # {} /\ item.value # {}
                      THEN CriteriaField(CHOOSE h \in item.heading : TRUE)
                      ELSE ""
             next == IF field # ""
                     THEN Put(job, field, CHOOSE v \in item.value : TRUE)
                     ELSE job
         IN ApplyCriteria(next, Tail(items))

\* scraper.py:279  if not job.get("salary")
NeedsSalaryAlways(job) == TRUE
NeedsSalary(job) == Get(job, "salary") = ""

\* scraper.py:269-270  if not html: return job
DetailFailedEmpty(job) == EmptyDict
DetailFailed(job) == job

\* scraper.py:268-314  _enrich_with_details once the detail page is fetched
Enrich(job, html) ==
    IF Falsy(html)
    THEN DetailFailed(job)
    ELSE LET d == html.detail
             j1 == IF d.description # {}
                   THEN Put(job, "description", CHOOSE v \in d.description : TRUE)
                   ELSE job
             j2 == IF NeedsSalary(j1) /\ d.salary # {}
                   THEN Put(j1, "salary", CHOOSE v \in d.salary : TRUE)
                   ELSE j1
             j3 == IF d.criteria # {}
                   THEN ApplyCriteria(j2, CHOOSE v \in d.criteria : TRUE)
                   ELSE j2
             j4 == IF d.applicantCount # {}
                   THEN Put(j3, "applicantCount",
                            CHOOSE v \in d.applicantCount : TRUE)
                   ELSE j3
         IN j4

\* models.py:91-113  format_job_card
FormatJobCard(data) ==
    [jobId |-> Get(data, "jobId"),
     title |-> Get(data, "title"),
     company |-> Get(data, "company"),
     companyUrl |-> Get(data, "companyUrl"),
     location |-> Get(data, "location"),
     postedDate |-> Get(data, "postedDate"),
     postedDateTimestamp |-> Get(data, "postedDateTimestamp"),
     salary |-> Get(data, "salary"),
     url |-> Get(data, "url"),
     description |-> Get(data, "description"),
     seniorityLevel |-> Get(data, "seniorityLevel"),
     employmentType |-> Get(data, "employmentType"),
     jobFunction |-> Get(data, "jobFunction"),
     industries |-> Get(data, "industries"),
     applicantCount |-> Get(data, "applicantCount")]

\* scraper.py:72  start = 25
FIRST_START == 25
\* scraper.py:111  start += 10
PAGE_STRIDE == 10
\* scraper.py:75  if start >= 1000
PAGINATION_LIMIT == 1000

\* scraper.py:61,74,102  count >= max_results
ReachedMaxOnlyEqual(c, m) == c = m
ReachedMaxOffByOne(c, m) == c > m
ReachedMax(c, m) == c >= m

\* scraper.py:95-97  if not page_jobs: break
NoCardsOrPartialPage(page_jobs) == Len(page_jobs) < PAGE_STRIDE
NoCards(page_jobs) == page_jobs = <<>>

\* scraper.py:75  if start >= 1000
PastLimitNever(s) == FALSE
PastLimit(s) == s >= PAGINATION_LIMIT

\* scraper.py:111  start += 10
NextStartSame(s) == s
NextStart(s) == s + PAGE_STRIDE

\* scraper.py:80  total_results is not None and start >= total_results
PastTotalIgnored(s, total) == FALSE
PastTotalStrict(s, total) == \E t \in total : s > t
PastTotal(s, total) == \E t \in total : s >= t

\* scraper.py:45,90  if not first_page_html / if not page_html
PageMissingOnlyEmpty(html) == html.kind = "empty"
PageMissing(html) == Falsy(html)

\* what the observer keeps of a fetched page: its kind and the number of
\* its card elements that carry a job id
Seen(html) ==
    [kind |-> html.kind,
     valid |-> Cardinality({i \in 1..Len(html.cards) :
                               CardJobId(html.cards[i]) # ""})]

\* the job ids the card elements of a page carry, in document order
RECURSIVE CardIds(_)
CardIds(cards) ==
    IF cards = <<>>
    THEN <<>>
    ELSE (IF CardJobId(Head(cards)) # "" THEN <<CardJobId(Head(cards))>> ELSE <<>>)
         \o CardIds(Tail(cards))

sfetchvars == <<max_results, fetch_job_details, first_page,
                total_results, jobs, count, start, yielded, results,
                discovered, pulls>>

\* a step of scrape() outside fetch_html
NoFetch ==
    /\ UNCHANGED <<pc, remaining>>
    /\ UNCHANGED pvars
    /\ UNCHANGED rlvars
    /\ UNCHANGED fvars

\* fetch_html has returned to scrape(): its frame is gone
FetchReturned ==
    /\ pc' = [pc EXCEPT ![Scraper] = "idle"]
    /\ url' = NoUrl
    /\ attempt' = 0
    /\ waits' = 0
    /\ sleeps' = <<>>
    /\ outcomes' = <<>>
    /\ fetch_result' = Pending
    /\ UNCHANGED remaining
    /\ UNCHANGED rlvars
    /\ UNCHANGED pvars

\* the generator ends (StopAsyncIteration)
Finish ==
    /\ spc' = "done"
    /\ UNCHANGED <<max_results, fetch_job_details, first_page,
                   total_results, jobs, count, start, yielded, fetch_log,
                   results, discovered, pulls>>
    /\ NoFetch

\* scrape() calls fetch_html(u) and is suspended in it at label
ScrapeFetch(u, label) ==
    /\ FetchCall(u)
    /\ UNCHANGED pvars
    /\ fetch_log' = Append(fetch_log, u)
    /\ spc' = label

\* scraper.py:67,108  yield format_job_card(job): the record is handed to
\* the consumer and scrape() is suspended until the next pull
YieldWithoutSuspending(job, label) ==
    /\ yielded' = Append(yielded, FormatJobCard(job))
    /\ spc' = (IF label = "yield1" THEN "loop1" ELSE "loop2")
    /\ count' = count + 1
    /\ jobs' = Tail(jobs)
    /\ UNCHANGED <<max_results, fetch_job_details, first_page,
                   total_results, start, fetch_log, discovered, pulls>>
Yield(job, label) ==
    /\ yielded' = Append(yielded, FormatJobCard(job))
    /\ spc' = label
    /\ UNCHANGED <<max_results, fetch_job_details, first_page,
                   total_results, jobs, count, start, fetch_log,
                   discovered, pulls>>

\* scraper.py:31-43  the consumer's first pull runs scrape() up to the
\* fetch of the first page
PullFirst ==
    /\ spc = "created"
    /\ count' = 0
    /\ pulls' = pulls + 1
    /\ ScrapeFetch(SearchUrl, "fetch1")
    /\ UNCHANGED <<max_results, fetch_job_details, first_page,
                   total_results, jobs, start, yielded, results, discovered>>

\* scraper.py:45-58  the first page is back
AfterFirstPage ==
    /\ spc = "fetch1"
    /\ pc[Scraper] = "f_done"
    /\ first_page' = Seen(fetch_result)
    /\ results' = Append(results, Seen(fetch_result))
    /\ IF PageMissing(fetch_result)
       THEN /\ spc' = "done"
            /\ UNCHANGED <<total_results, jobs, discovered>>
       ELSE /\ total_results' = ParseTotalResults(fetch_result)
            /\ jobs' = ParseSearchCards(fetch_result)
            /\ discovered' = discovered \o CardIds(fetch_result.cards)
            /\ spc' = "loop1"
    /\ UNCHANGED <<max_results, fetch_job_details, count, start, yielded,
                   fetch_log, pulls>>
    /\ FetchReturned

\* scraper.py:60-67,101-108  one turn of `for job in ...`: stop at
\* max_results, else enrich (fetch the detail page) or yield at once
ForJob(loop, enrich, yield) ==
    /\ spc = loop
    /\ jobs # <<>>
    /\ IF ReachedMax(count, max_results)
       THEN Finish
       ELSE IF fetch_job_details /\ Get(Head(jobs), "jobId") # ""
            THEN /\ ScrapeFetch(DetailUrl(Get(Head(jobs), "jobId")), enrich)
                 /\ UNCHANGED sfetchvars
            ELSE Yield(Head(jobs), yield) /\ NoFetch /\ UNCHANGED results

\* scraper.py:266-314,67,108  the detail page is back: merge and yield
AfterDetail(enrich, yield) ==
    /\ spc = enrich
    /\ pc[Scraper] = "f_done"
    /\ Yield(Enrich(Head(jobs), fetch_result), yield)
    /\ results' = Append(results, Seen(fetch_result))
    /\ FetchReturned

\* scraper.py:68,109  the consumer's next pull: count += 1 and on to the
\* next card
PullNext(yield, loop) ==
    /\ spc = yield
    /\ count' = count + 1
    /\ jobs' = Tail(jobs)
    /\ pulls' = pulls + 1
    /\ spc' = loop
    /\ UNCHANGED <<max_results, fetch_job_details, first_page,
                   total_results, start, yielded, fetch_log, results,
                   discovered>>
    /\ NoFetch

\* scraper.py:60,72  the first page's cards are done: start = 25
EndFirstLoop ==
    /\ spc = "loop1"
    /\ jobs = <<>>
    /\ start' = FIRST_START
    /\ spc' = "while"
    /\ UNCHANGED <<max_results, fetch_job_details, first_page,
                   total_results, jobs, count, yielded, fetch_log, results,
                   discovered, pulls>>
    /\ NoFetch

\* scraper.py:74-88  head of the pagination loop
WhilePage ==
    /\ spc = "while"
    /\ IF \/ ReachedMax(count, max_results)
          \/ PastLimit(start)
          \/ PastTotal(start, total_results)
       THEN Finish
       ELSE /\ ScrapeFetch(GuestUrl(start), "fetch2")
            /\ UNCHANGED sfetchvars

\* scraper.py:90-99  a guest-API page is back
AfterPage ==
    /\ spc = "fetch2"
    /\ pc[Scraper] = "f_done"
    /\ results' = Append(results, Seen(fetch_result))
    /\ IF PageMissing(fetch_result) \/ NoCards(ParseSearchCards(fetch_result))
       THEN /\ spc' = "done"
            /\ UNCHANGED <<jobs, discovered>>
       ELSE /\ jobs' = ParseSearchCards(fetch_result)
            /\ discovered' = discovered \o CardIds(fetch_result.cards)
            /\ spc' = "loop2"
    /\ UNCHANGED <<max_results, fetch_job_details, first_page,
                   total_results, count, start, yielded, fetch_log, pulls>>
    /\ FetchReturned

\* scraper.py:101,111  the page's cards are done: start += 10
EndPageLoop ==
    /\ spc = "loop2"
    /\ jobs = <<>>
    /\ start' = NextStart(start)
    /\ spc' = "while"
    /\ UNCHANGED <<max_results, fetch_job_details, first_page,
                   total_results, jobs, count, yielded, fetch_log, results,
                   discovered, pulls>>
    /\ NoFetch

\* no parser run
InitParser ==
    /\ html_in = Pending
    /\ jobs_out = {}
    /\ job_in = EmptyDict
    /\ job_out = {}

\* main.py:70-71  a scraper that has been constructed and not yet pulled
InitConfig ==
    /\ max_results = 100
    /\ fetch_job_details = TRUE
    /\ spc = "created"
    /\ first_page = Seen(Pending)
    /\ total_results = {}
    /\ jobs = <<>>
    /\ count = 0
    /\ start = 0
    /\ yielded = <<>>
    /\ fetch_log = <<>>
    /\ results = <<>>
    /\ discovered = <<>>
    /\ pulls = 0
    /\ InitParser


InitRL ==
    /\ age \in 0..REQUEST_INTERVAL
    /\ locked = FALSE
    /\ waiters = <<>>
    /\ pc = [t \in Tasks |-> "idle"]
    /\ remaining = [t \in Tasks |-> 0]
    /\ contended = [t \in Tasks |-> FALSE]
    /\ returns = 0
    /\ since_return = 0
    /\ gap = -1
    /\ gap_contended = FALSE
    /\ InitFetch
    /\ InitConfig

NextRL ==
    \/ \E t \in Callers : CallWait(t)
    \/ \E t \in Callers : LockWake(t)
    \/ \E t \in Callers : WaitWake(t)
    \/ Tick(1)

SpecRL == InitRL /\ [][NextRL]_vars

SpecFetch == InitRL /\ [][NextFetch]_vars

\* --- the upstream the scraper is run against
CardA == [urn |-> JobUrn("101"), inner |-> NoUrn,
          texts |-> [title |-> "Engineer", company |-> "Acme"],
          link |-> [found |-> TRUE,
                    path |-> "https://www.linkedin.com/jobs/view/engineer-101",
                    query |-> "?trk=guest"]]
CardB == [urn |-> OtherUrn, inner |-> JobUrn("102"),
          texts |-> [title |-> "Analyst", salary |-> "$90k"],
          link |-> NoLink]
CardNoId == [urn |-> NoUrn, inner |-> OtherUrn,
             texts |-> [title |-> "Promoted"],
             link |-> NoLink]
CardPool == {CardA, CardB, CardNoId}

RECURSIVE CardLists(_)
CardLists(n) ==
    IF n = 0
    THEN {<<>>}
    ELSE LET shorter == CardLists(n - 1) IN
         shorter \cup {<<c>> \o l : c \in CardPool,
                                    l \in {x \in shorter : Len(x) = n - 1}}

Totals == {{}, {25}, {35}}
SearchPages == {SearchHtml(t, l) : t \in Totals, l \in CardLists(MaxCards)}
GuestPages == {SearchHtml({}, l) : l \in CardLists(MaxCards)}
SampleDetail ==
    [description |-> {"Build things"},
     salary |-> {"$120k"},
     criteria |-> {<<[heading |-> {{"seniority"}}, value |-> {"Mid-Senior"}],
                     [heading |-> {{"employment", "type"}}, value |-> {"Full-time"}],
                     [heading |-> {{}}, value |-> {"ignored"}]>>},
     applicantCount |-> {"25 applicants"}]
DetailPages == {DetailHtml(SampleDetail)}

Bodies(u) ==
    {EmptyHtml} \cup (CASE u.endpoint = "detail" -> DetailPages
                         [] u.endpoint = "guest" -> GuestPages
                         [] OTHER -> SearchPages)
ScrapeOutcomes(u) ==
    {Resp(200, b) : b \in Bodies(u)}
    \cup {Resp(429, EmptyHtml), Resp(404, EmptyHtml)}

Init ==
    /\ age \in 0..REQUEST_INTERVAL
    /\ locked = FALSE
    /\ waiters = <<>>
    /\ pc = [t \in Tasks |-> "idle"]
    /\ remaining = [t \in Tasks |-> 0]
    /\ contended = [t \in Tasks |-> FALSE]
    /\ returns = 0
    /\ since_return = 0
    /\ gap = -1
    /\ gap_contended = FALSE
    /\ InitFetch
    /\ max_results \in 0..MaxResults
    /\ fetch_job_details \in BOOLEAN
    /\ spc = "created"
    /\ first_page = Seen(Pending)
    /\ total_results = {}
    /\ jobs = <<>>
    /\ count = 0
    /\ start = 0
    /\ yielded = <<>>
    /\ fetch_log = <<>>
    /\ results = <<>>
    /\ discovered = <<>>
    /\ pulls = 0
    /\ InitParser

Next ==
    \/ PullFirst
    \/ AfterFirstPage
    \/ ForJob("loop1", "enrich1", "yield1")
    \/ AfterDetail("enrich1", "yield1")
    \/ PullNext("yield1", "loop1")
    \/ EndFirstLoop
    \/ WhilePage
    \/ AfterPage
    \/ ForJob("loop2", "enrich2", "yield2")
    \/ AfterDetail("enrich2", "yield2")
    \/ PullNext("yield2", "loop2")
    \/ EndPageLoop
    \/ FetchAttempt
    \/ WaitWake(Scraper)
    \/ \E o \in ScrapeOutcomes(url) : Response(o)
    \/ BackoffWake
    \/ \E d \in LongAdvance : Tick(d)

Spec == Init /\ [][Next]_vars

\* --- a run of a new scraper to its end: an upstream with fewer kinds of
\* card and, besides the answers above, a timeout
LiveCards == {CardA, CardNoId}
RECURSIVE LiveCardLists(_)
LiveCardLists(n) ==
    IF n = 0
    THEN {<<>>}
    ELSE LET shorter == LiveCardLists(n - 1) IN
         shorter \cup {<<c>> \o l : c \in LiveCards,
                                    l \in {x \in shorter : Len(x) = n - 1}}
LiveBodies(u) ==
    {EmptyHtml} \cup (CASE u.endpoint = "detail" -> DetailPages
                         [] u.endpoint = "guest" ->
                              {SearchHtml({}, l) : l \in LiveCardLists(MaxCards)}
                         [] OTHER ->
                              {SearchHtml(t, l) : t \in {{}, {35}},
                                                  l \in LiveCardLists(MaxCards)})
LiveOutcomes(u) ==
    {Resp(200, b) : b \in LiveBodies(u)}
    \cup {Resp(429, EmptyHtml), Resp(404, EmptyHtml), Exc("ReadTimeout")}

\* utils.py:42  a new RateLimiter has _last_request = 0.0
InitLive == Init /\ age = REQUEST_INTERVAL

NextLive ==
    \/ PullFirst
    \/ AfterFirstPage
    \/ ForJob("loop1", "enrich1", "yield1")
    \/ AfterDetail("enrich1", "yield1")
    \/ PullNext("yield1", "loop1")
    \/ EndFirstLoop
    \/ WhilePage
    \/ AfterPage
    \/ ForJob("loop2", "enrich2", "yield2")
    \/ AfterDetail("enrich2", "yield2")
    \/ PullNext("yield2", "loop2")
    \/ EndPageLoop
    \/ FetchAttempt
    \/ WaitWake(Scraper)
    \/ \E o \in LiveOutcomes(url) : Response(o)
    \/ BackoffWake
    \/ \E d \in LongAdvance : Tick(d)

\* the event loop runs whatever is ready and the consumer asks for the
\* next item whenever it holds one: timers fire, and the GET ends with a
\* response or, after the client's timeout (utils.py:88), an exception
FairSpec == InitLive /\ [][NextLive]_vars /\ WF_vars(NextLive)

\* --- a run with the default configuration against an upstream that keeps
\* serving pages, long enough to reach the pagination limit
\* models.py:25  max_results: int = 100
DEFAULT_MAX_RESULTS == 100
PagingPage == SearchHtml({}, <<CardA>>)
PagingOutcomes == {Resp(200, PagingPage), Resp(404, EmptyHtml)}

InitPaging ==
    /\ age \in {0, REQUEST_INTERVAL}
    /\ locked = FALSE
    /\ waiters = <<>>
    /\ pc = [t \in Tasks |-> "idle"]
    /\ remaining = [t \in Tasks |-> 0]
    /\ contended = [t \in Tasks |-> FALSE]
    /\ returns = 0
    /\ since_return = 0
    /\ gap = -1
    /\ gap_contended = FALSE
    /\ InitFetch
    /\ max_results = DEFAULT_MAX_RESULTS
    /\ fetch_job_details = FALSE
    /\ spc = "created"
    /\ first_page = Seen(Pending)
    /\ total_results = {}
    /\ jobs = <<>>
    /\ count = 0
    /\ start = 0
    /\ yielded = <<>>
    /\ fetch_log = <<>>
    /\ results = <<>>
    /\ discovered = <<>>
    /\ pulls = 0
    /\ InitParser

NextPaging ==
    \/ PullFirst
    \/ AfterFirstPage
    \/ ForJob("loop1", "enrich1", "yield1")
    \/ PullNext("yield1", "loop1")
    \/ EndFirstLoop
    \/ WhilePage
    \/ AfterPage
    \/ ForJob("loop2", "enrich2", "yield2")
    \/ PullNext("yield2", "loop2")
    \/ EndPageLoop
    \/ FetchAttempt
    \/ WaitWake(Scraper)
    \/ \E o \in PagingOutcomes : Response(o)
    \/ \E d \in LongAdvance : Tick(d)

SpecPaging == InitPaging /\ [][NextPaging]_vars

\* --- a run configured with max_results of 0 or less (models.py:25 puts
\* no lower limit on the field), against the upstream of Spec
InitNoResults ==
    /\ age \in 0..REQUEST_INTERVAL
    /\ locked = FALSE
    /\ waiters = <<>>
    /\ pc = [t \in Tasks |-> "idle"]
    /\ remaining = [t \in Tasks |-> 0]
    /\ contended = [t \in Tasks |-> FALSE]
    /\ returns = 0
    /\ since_return = 0
    /\ gap = -1
    /\ gap_contended = FALSE
    /\ InitFetch
    /\ max_results \in {-n : n \in 0..MaxResults}
    /\ fetch_job_details \in BOOLEAN
    /\ spc = "created"
    /\ first_page = Seen(Pending)
    /\ total_results = {}
    /\ jobs = <<>>
    /\ count = 0
    /\ start = 0
    /\ yielded = <<>>
    /\ fetch_log = <<>>
    /\ results = <<>>
    /\ discovered = <<>>
    /\ pulls = 0
    /\ InitParser

NextNoResults ==
    \/ PullFirst
    \/ AfterFirstPage
    \/ ForJob("loop1", "enrich1", "yield1")
    \/ EndFirstLoop
    \/ WhilePage
    \/ FetchAttempt
    \/ WaitWake(Scraper)
    \/ \E o \in ScrapeOutcomes(url) : Response(o)
    \/ BackoffWake
    \/ \E d \in LongAdvance : Tick(d)

SpecNoResults == InitNoResults /\ [][NextNoResults]_vars

\* --- _parse_search_cards run on its own, over every page of card
\* elements of the shapes below; the title of a card tells its position,
\* and the cards at odd positions have the other fields too
UrnShapes == {NoUrn, OtherUrn, JobUrn(""), JobUrn("7")}
CardShapes == [urn : UrnShapes, inner : UrnShapes]
MakeCard(shape, i) ==
    [urn |-> shape.urn,
     inner |-> shape.inner,
     texts |-> IF i % 2 = 1
               THEN [title |-> ToString(i), company |-> "Acme",
                     location |-> "Remote", salary |-> "$90k"]
               ELSE [title |-> ToString(i)],
     link |-> IF i % 2 = 1
              THEN [found |-> TRUE,
                    path |-> "https://www.linkedin.com/jobs/view/" \o ToString(i),
                    query |-> ""]
              ELSE NoLink]
CardPages(n) ==
    {SearchHtml({}, [i \in 1..n |-> MakeCard(shapes[i], i)]) :
        shapes \in [1..n -> CardShapes]}

\* the parser is given a page of n card elements
LoadPage(n) ==
    /\ html_in = Pending
    /\ html_in' \in CardPages(n)
    /\ UNCHANGED <<jobs_out, job_in, job_out>>
    /\ UNCHANGED <<pc, remaining, rlvars, fvars, svars>>

\* scraper.py:152-188  _parse_search_cards returns
ParsePage ==
    /\ html_in # Pending
    /\ jobs_out = {}
    /\ jobs_out' = {ParseSearchCards(html_in)}
    /\ UNCHANGED <<html_in, job_in, job_out>>
    /\ UNCHANGED <<pc, remaining, rlvars, fvars, svars>>

NextCards ==
    \/ \E n \in 0..MaxCards : LoadPage(n)
    \/ ParsePage

\* utils.py:42  a new RateLimiter has _last_request = 0.0
InitCards == InitRL /\ age = REQUEST_INTERVAL

SpecCards == InitCards /\ [][NextCards]_vars

\* --- _enrich_with_details run on its own, from the point where the
\* detail page is fetched: jobs with and without a salary against detail
\* pages with and without each element, and a job against every criteria
\* list of the items below; the value of an item tells its position
EnrichJobs == {ParseSingleCard(CardA), ParseSingleCard(CardB),
               Put(ParseSingleCard(CardA), "salary", "")}
HeadingKeywords == {{}, {"seniority"}, {"employment"}, {"type"}, {"function"},
                    {"industr"}, {"function", "seniority"},
                    {"industr", "type"}, {"function", "industr"},
                    {"employment", "seniority"}}
ItemShapes ==
    [heading : {{}} \cup {{ks} : ks \in HeadingKeywords}, valued : BOOLEAN]
MakeItem(shape, i) ==
    [heading |-> shape.heading,
     value |-> IF shape.valued THEN {ToString(i)} ELSE {}]
CriteriaLists(n) ==
    {[i \in 1..n |-> MakeItem(shapes[i], i)] : shapes \in [1..n -> ItemShapes]}
ElementPages ==
    {DetailHtml([description |-> d, salary |-> s, criteria |-> c,
                 applicantCount |-> a]) :
        d \in {{}, {"Build things"}}, s \in {{}, {"$120k"}},
        c \in {{}, SampleDetail.criteria}, a \in {{}, {"25 applicants"}}}
CriteriaPages(n) ==
    {DetailHtml([EmptyDetail EXCEPT !.criteria = {items}]) :
        items \in CriteriaLists(n)}

\* the enrichment has the detail page of its job: any job with a page of
\* ElementPages
LoadElements ==
    /\ html_in = Pending
    /\ html_in' \in ElementPages
    /\ job_in' \in EnrichJobs
    /\ UNCHANGED <<jobs_out, job_out>>
    /\ UNCHANGED <<pc, remaining, rlvars, fvars, svars>>

\* the same, for one job with a page that has a criteria list of n items
LoadCriteria(n) ==
    /\ html_in = Pending
    /\ html_in' \in CriteriaPages(n)
    /\ job_in' = ParseSingleCard(CardA)
    /\ UNCHANGED <<jobs_out, job_out>>
    /\ UNCHANGED <<pc, remaining, rlvars, fvars, svars>>

\* scraper.py:268-314  _enrich_with_details returns
EnrichJob ==
    /\ html_in # Pending
    /\ job_out = {}
    /\ job_out' = {Enrich(job_in, html_in)}
    /\ UNCHANGED <<html_in, jobs_out, job_in>>
    /\ UNCHANGED <<pc, remaining, rlvars, fvars, svars>>

NextEnrich ==
    \/ LoadElements
    \/ \E n \in 0..MaxItems : LoadCriteria(n)
    \/ EnrichJob

SpecEnrich == InitCards /\ [][NextEnrich]_vars

\* ------------------------------------------------------------- properties

\* C1: any two consecutive returns of wait() on one RateLimiter, sequential
\* or concurrent, are at least REQUEST_INTERVAL seconds apart
C1_MinSeparation == gap # -1 => gap >= 5
C1_Witness == returns = 2 /\ gap = 5 /\ gap_contended

\* C2: the timestamp read, the sleep and the timestamp update of wait() are
\* one critical section: at most one caller is inside it, it holds the lock
\* across the sleep, and the timestamp it computed its wait from is not
\* overwritten under it
InCritical == {t \in Tasks : pc[t] = "rl_sleep"}
C2_CriticalSection ==
    /\ Cardinality(InCritical) <= 1
    /\ \A t \in InCritical : locked /\ age + remaining[t] >= 5
C2_Witness ==
    \E t, u \in Tasks : pc[t] = "rl_sleep" /\ remaining[t] > 0 /\ pc[u] = "queued"

Done == pc[Scraper] = "f_done"
Last(q) == q[Len(q)]
IsStatus(o, set) == o.kind = "response" /\ o.status \in set
AllRateLimited ==
    \A i \in 1..Len(outcomes) : IsStatus(outcomes[i], {429, 403})

\* C3: when every attempt gets 429 or 403, the delay before the n-th retry
\* is 15 * 2^(n-1) (15, then 30), and after MAX_RETRIES attempts the call
\* returns None
C3_ExponentialBackoff ==
    AllRateLimited =>
        /\ \A n \in 1..2 : n <= Len(sleeps) => sleeps[n] = 15 * Pow2(n - 1)
        /\ Len(outcomes) <= 3
        /\ Done => Len(outcomes) = 3 /\ fetch_result = None
C3_Witness ==
    /\ Done /\ AllRateLimited /\ Len(outcomes) = 3
    /\ \E i, j \in 1..3 : outcomes[i].status = 429 /\ outcomes[j].status = 403
    /\ sleeps[1] = 15 /\ sleeps[2] = 30

\* C4: an attempt that receives status 200 makes fetch_html return that
\* response's text at once: one rate-limiter wait per attempt made, and no
\* backoff sleep after the 200
C4_OkReturnsBody ==
    /\ \A i \in 1..Len(outcomes) :
          IsStatus(outcomes[i], {200}) => i = Len(outcomes)
    /\ (outcomes # <<>> /\ IsStatus(Last(outcomes), {200})) =>
          /\ Done
          /\ fetch_result = Last(outcomes).text
          /\ waits = Len(outcomes)
          /\ Len(sleeps) = Len(outcomes) - 1
          /\ remaining[Scraper] = 0
C4_Witness ==
    /\ Done /\ Len(outcomes) = 2 /\ IsStatus(Last(outcomes), {200})
    /\ fetch_result = SamplePage

\* C5: a first response with status 400, 404 or any status other than 200,
\* 429, 403 and >= 500 ends fetch_html with None after exactly one attempt,
\* without retry and without backoff sleep
IsTerminalStatus(o) ==
    o.kind = "response" /\ o.status \notin {200, 429, 403} /\ o.status < 500
C5_TerminalNoRetry ==
    (outcomes # <<>> /\ IsTerminalStatus(outcomes[1])) =>
        /\ Done
        /\ fetch_result = None
        /\ Len(outcomes) = 1
        /\ waits = 1
        /\ sleeps = <<>>
        /\ remaining[Scraper] = 0
C5_Witness ==
    Done /\ outcomes # <<>> /\ IsStatus(outcomes[1], {404}) /\ fetch_result = None

\* C6: attempt a (0-based) ending in a status >= 500, a timeout or another
\* transport error is followed by a sleep of 10 * (a + 1) and a retry; when
\* all MAX_RETRIES attempts fail this way the call returns None
IsServerFailure(o) ==
    \/ o.kind = "response" /\ o.status >= 500
    \/ o.kind = "exception"
C6_LinearBackoff ==
    /\ \A i \in 1..Len(outcomes) :
          IsServerFailure(outcomes[i]) =>
              /\ Len(sleeps) >= i
              /\ sleeps[i] = 10 * i
    /\ (Done /\ IsServerFailure(Last(outcomes))) =>
              Len(outcomes) = 3 /\ fetch_result = None
C6_Witness ==
    /\ Done /\ fetch_result = None /\ sleeps = <<10, 20, 30>>
    /\ outcomes[1].kind = "exception" /\ IsStatus(outcomes[2], {500, 503})
    /\ outcomes[3].kind = "exception"

\* C7: one fetch_html call makes exactly one rate_limiter.wait() before each
\* GET, so waits and GETs are equal in number, between 1 and MAX_RETRIES,
\* also when the call returns None
Gets == Len(outcomes) + (IF pc[Scraper] = "get" THEN 1 ELSE 0)
C7_OneWaitPerGet ==
    /\ waits <= 3
    /\ pc[Scraper] \in {"queued", "rl_sleep"} => waits = Gets + 1
    /\ pc[Scraper] \in {"f_loop", "get", "backoff", "f_done"} => waits = Gets
    /\ Done => waits >= 1 /\ waits = Len(outcomes)
C7_Witness == Done /\ fetch_result = None /\ waits = 3 /\ Len(outcomes) = 3

\* C8: whatever statuses, timeouts and transport errors the attempts meet,
\* fetch_html ends by returning a text or None and never by raising
C8_NoEscape ==
    /\ pc[Scraper] # "f_raised"
    /\ Done => fetch_result.kind \in {"None", "empty", "search", "detail"}
C8_Witness ==
    /\ Done
    /\ \E i, j \in 1..Len(outcomes) :
          outcomes[i].exc = "ReadTimeout" /\ outcomes[j].exc = "ConnectError"

\* C9: when the fetch of the first page returns None, scrape() yields no
\* record and calls fetch_html for nothing else: no guest-API page and no
\* detail page
C9_PrimaryAbsent ==
    first_page.kind = "None" =>
        /\ spc = "done"
        /\ yielded = <<>>
        /\ fetch_log = <<SearchUrl>>
C9_Witness ==
    /\ first_page.kind = "None" /\ spc = "done"
    /\ max_results > 0 /\ fetch_job_details

\* C10: scrape() never yields more than max_results records, and when the
\* first page holds at least max_results valid cards the sequence ends with
\* exactly max_results records and the guest API is never called
C10_AtMostMaxResults ==
    /\ Len(yielded) <= max_results
    /\ (first_page.kind = "search" /\ first_page.valid >= max_results) =>
          /\ \A i \in 1..Len(fetch_log) : fetch_log[i].endpoint # "guest"
          /\ spc = "done" => Len(yielded) = max_results
C10_Witness ==
    /\ spc = "done" /\ first_page.kind = "search"
    /\ max_results = 1 /\ first_page.valid = 2
    /\ Len(yielded) = 1

\* --- scrape(): pagination
IsGuest(u) == u.endpoint = "guest"
IsDetail(u) == u.endpoint = "detail"
GuestFetches == SelectSeq(fetch_log, IsGuest)
DetailFetches == SelectSeq(fetch_log, IsDetail)
PrimaryEmpty == first_page.kind = "search" /\ first_page.valid = 0

\* C11 as stated: when the first page is fetched and holds no valid card,
\* scrape() yields nothing and never fetches a guest-API page
C11_EmptyPrimaryEndsScrape ==
    PrimaryEmpty => yielded = <<>> /\ GuestFetches = <<>>

\* C11, amended: when the first page is fetched and holds no valid card, no
\* record is yielded before a guest-API page is fetched; scrape() yields
\* nothing and fetches no guest-API page only when max_results is 0 or the
\* parsed total is at most 25; otherwise the while loop is entered and the
\* guest API is fetched at start=25
C11_EmptyPrimaryStillPaginates ==
    PrimaryEmpty =>
        /\ yielded # <<>> => GuestFetches # <<>>
        /\ (max_results = 0 \/ \E t \in total_results : t <= FIRST_START) =>
              yielded = <<>> /\ GuestFetches = <<>>
        /\ (/\ spc = "done"
            /\ max_results > 0
            /\ \A t \in total_results : t > FIRST_START) =>
              GuestFetches # <<>> /\ GuestFetches[1] = GuestUrl(FIRST_START)
C11_Witness ==
    /\ PrimaryEmpty /\ spc = "done"
    /\ GuestFetches # <<>>
    /\ yielded # <<>>

\* the returned fetch i brought no page, or a page without a valid card
CameBackEmpty(i) == results[i].kind \in {"None", "empty"} \/ results[i].valid = 0

\* C12: the guest-API pages are fetched at start = 25, 35, 45, ... in this
\* order, none skipped and none repeated, and the first guest-API fetch
\* that returns nothing or a page without a valid card is the last fetch
\* of the run: scrape() is over, whatever the number of records yielded
C12_OffsetsThenStop ==
    /\ \A i \in 1..Len(GuestFetches) :
          GuestFetches[i].start = 25 + 10 * (i - 1)
    /\ \A i \in 1..Len(results) :
          (IsGuest(fetch_log[i]) /\ CameBackEmpty(i)) =>
              spc = "done" /\ i = Len(fetch_log)
C12_Witness ==
    /\ Len(GuestFetches) = 2
    /\ Len(results) = Len(fetch_log)
    /\ CameBackEmpty(Len(results))
    /\ Len(yielded) = 1 /\ max_results = 2

\* C13: no guest-API page is ever fetched at start >= 1000: the largest
\* start requested is 995 and a run fetches at most 98 guest-API pages,
\* here with max_results = 100 and an upstream with a card on every page
C13_PaginationCeiling ==
    /\ \A i \in 1..Len(GuestFetches) :
          GuestFetches[i].start < 1000 /\ GuestFetches[i].start <= 995
    /\ Len(GuestFetches) <= 98
C13_Witness ==
    /\ spc = "done"
    /\ Len(GuestFetches) = 98
    /\ GuestFetches[98].start = 995
    /\ Len(yielded) = 99 /\ Len(yielded) < max_results

\* C14: when a total was parsed from the first page, no guest-API page is
\* fetched at a start at or beyond it, so a total of 25 or less means no
\* guest-API fetch at all; when no total was parsed, the loop head stops
\* the run only for max_results or for the pagination limit
C14_EstimateBound ==
    /\ [](\A t \in total_results :
            /\ \A i \in 1..Len(GuestFetches) : GuestFetches[i].start < t
            /\ t <= 25 => GuestFetches = <<>>)
    /\ [][(spc = "while" /\ spc' = "done" /\ total_results = {}) =>
            (count >= max_results \/ start >= 1000)]_vars
C14_Witness ==
    /\ spc = "done"
    /\ total_results = {35}
    /\ GuestFetches = <<GuestUrl(25)>>
    /\ Len(results) = Len(fetch_log) /\ ~CameBackEmpty(Len(results))
    /\ start = 35
    /\ Len(yielded) = 1 /\ max_results = 2

\* --- scrape(): detail pages
DetailFieldNames == {"description", "seniorityLevel", "employmentType",
                     "jobFunction", "industries", "applicantCount"}
NoDetailFields(rec) == \A f \in DetailFieldNames : rec[f] = ""
\* the position in fetch_log of the k-th detail fetch
DetailIndex(k) ==
    CHOOSE i \in 1..Len(fetch_log) :
        /\ IsDetail(fetch_log[i])
        /\ Cardinality({j \in 1..i : IsDetail(fetch_log[j])}) = k
Yields == {"yield1", "yield2"}

\* C15: with fetch_job_details on, a detail fetch that returns None drops
\* nothing and stops nothing: in the same step the card's summary is
\* yielded as it was parsed, with every detail field empty, and scrape()
\* is suspended at the yield, from where the next pull goes on to the
\* next card
C15_DetailAbsentKeepsRecord ==
    /\ [](\A k \in 1..Len(DetailFetches) :
            (/\ DetailIndex(k) <= Len(results)
             /\ results[DetailIndex(k)].kind = "None") =>
                /\ Len(yielded) >= k
                /\ yielded[k].jobId = DetailFetches[k].job
                /\ NoDetailFields(yielded[k]))
    /\ [][(/\ spc \in {"enrich1", "enrich2"}
           /\ fetch_result.kind = "None"
           /\ spc' # spc) =>
              /\ yielded' = Append(yielded, FormatJobCard(Head(jobs)))
              /\ spc' \in Yields
              /\ jobs' = jobs]_vars
C15_Witness ==
    /\ fetch_job_details
    /\ Len(DetailFetches) = 2 /\ Len(yielded) = 2
    /\ results[DetailIndex(1)].kind = "None"
    /\ yielded[1].jobId = "101" /\ yielded[1].title = "Engineer"
    /\ yielded[1].description = ""
    /\ yielded[2].description # ""

\* --- scrape(): the consumer
\* fetch_html calls that have not returned yet
InFlight == Len(fetch_log) - Len(results)
\* scrape() is not running: not started, suspended at a yield, or over
Suspended == spc \in Yields \cup {"created", "done"}

\* C16: a run has at most one fetch_html call in flight, and scrape() does
\* nothing ahead of the consumer: there are never more detail fetches or
\* records than pulls, a fetch is in flight only while a pull is waiting
\* for its record, and while scrape() is suspended at a yield no fetch is
\* in flight, no timer is pending and nothing is fetched until the
\* consumer pulls again
C16_PullDriven ==
    /\ [](/\ InFlight \in {0, 1}
          /\ pc[Scraper] # "idle" => InFlight = 1
          /\ Len(DetailFetches) <= pulls
          /\ Len(yielded) <= pulls /\ pulls <= Len(yielded) + 1
          /\ Len(DetailFetches) <= Len(yielded) + 1
          /\ InFlight = 1 => pulls = Len(yielded) + 1
          /\ Suspended =>
                /\ InFlight = 0
                /\ pc[Scraper] = "idle" /\ remaining[Scraper] = 0
                /\ spc \in Yields => pulls = Len(yielded)
                /\ spc = "done" => pulls = Len(yielded) + 1)
    /\ [][(Suspended /\ pulls' = pulls) =>
              (fetch_log' = fetch_log /\ spc' = spc /\ yielded' = yielded)]_vars
C16_Witness ==
    /\ spc = "yield2"
    /\ fetch_job_details
    /\ pulls = 2 /\ Len(yielded) = 2
    /\ Len(DetailFetches) = 2
    /\ Len(fetch_log) = 4

\* C17: whatever max_results is and whatever the upstream answers, a
\* consumer that keeps pulling reaches the end of the sequence: scrape()
\* returns, after finitely many records, and no fetch_html call of the run
\* raises
C17_Terminates ==
    /\ <>(spc = "done")
    /\ [](pc[Scraper] # "f_raised")
C17_Witness ==
    /\ spc = "done"
    /\ max_results = 2 /\ Len(yielded) = 2
    /\ Len(GuestFetches) = 2
    /\ \E i \in 1..Len(results) : results[i].kind = "None"

\* --- scrape(): the sequence of records
\* C18: the job ids of the yielded records are, in order, the job ids of
\* the valid cards of the first page followed by those of each fetched
\* guest-API page by ascending start, each page in document order: a
\* prefix of that list at any time and, at the end of the run, the list
\* cut off after max_results; nothing reordered, skipped or de-duplicated
C18_DiscoveryOrder ==
    /\ Len(yielded) <= Len(discovered)
    /\ \A i \in 1..Len(yielded) : yielded[i].jobId = discovered[i]
    /\ spc = "done" => Len(yielded) = Min(Len(discovered), max_results)
C18_Witness ==
    /\ spc = "done" /\ max_results = 2
    /\ first_page.valid = 1
    /\ discovered = <<"102", "101", "101">>
    /\ Len(yielded) = 2
    /\ yielded[1].jobId = "102" /\ yielded[2].jobId = "101"

\* C19: with fetch_job_details off, scrape() never calls fetch_html for a
\* detail page, and every record it yields has the six detail fields,
\* each of them the empty string
C19_NoDetailsWhenOff ==
    ~fetch_job_details =>
        /\ DetailFetches = <<>>
        /\ \A i \in 1..Len(yielded) :
              /\ DetailFieldNames \subseteq DOMAIN yielded[i]
              /\ NoDetailFields(yielded[i])
C19_Witness ==
    /\ ~fetch_job_details
    /\ spc = "done"
    /\ Len(yielded) = 2
    /\ yielded[1].title # "" /\ yielded[2].salary # ""
    /\ Len(fetch_log) = 2

\* --- _parse_search_cards
\* the card has no urn holding 'jobPosting:', neither its own nor that of
\* a descendant
LacksJobPosting(card) ==
    /\ ~(card.urn.present /\ card.urn.marker)
    /\ ~(card.inner.present /\ card.inner.marker)

\* C20: a card element without a urn holding 'jobPosting:', on itself or
\* on a descendant, is in no record _parse_search_cards returns, whatever
\* its other fields are, and every record returned has a non-empty jobId
C20_OnlyIdentifiedCards ==
    \A out \in jobs_out :
        /\ \A j \in 1..Len(out) : Get(out[j], "jobId") # ""
        /\ \A i \in 1..Len(html_in.cards) :
              LacksJobPosting(html_in.cards[i]) =>
                  \A j \in 1..Len(out) :
                      Get(out[j], "title") # html_in.cards[i].texts.title
C20_Witness ==
    /\ Len(html_in.cards) = 2
    /\ LacksJobPosting(html_in.cards[1])
    /\ html_in.cards[1].urn = OtherUrn
    /\ "salary" \in DOMAIN html_in.cards[1].texts
    /\ \E out \in jobs_out : Len(out) = 1 /\ Get(out[1], "title") = "2"

\* --- scrape(): partial pages
\* the position in fetch_log of the k-th guest-API fetch
GuestIndex(k) ==
    CHOOSE i \in 1..Len(fetch_log) :
        /\ IsGuest(fetch_log[i])
        /\ Cardinality({j \in 1..i : IsGuest(fetch_log[j])}) = k

\* C21: a guest-API page with 1 to 9 valid cards does not end the
\* pagination: when its cards are done every card found so far has been
\* yielded and start goes up by exactly 10, and a run that is over has
\* fetched the next page at start + 10 unless max_results records were
\* yielded or start + 10 is at or past the parsed total or past the limit
C21_PartialPageGoesOn ==
    /\ [](spc = "done" =>
            \A k \in 1..Len(GuestFetches) :
                (/\ GuestIndex(k) <= Len(results)
                 /\ results[GuestIndex(k)].kind = "search"
                 /\ results[GuestIndex(k)].valid \in 1..9) =>
                    \/ Len(yielded) >= max_results
                    \/ \E t \in total_results : GuestFetches[k].start + 10 >= t
                    \/ GuestFetches[k].start + 10 >= 1000
                    \/ /\ k + 1 <= Len(GuestFetches)
                       /\ GuestFetches[k + 1].start = GuestFetches[k].start + 10)
    /\ [][(spc = "loop2" /\ spc' = "while") =>
              /\ start' = start + 10
              /\ Len(yielded) = Len(discovered)]_vars
C21_Witness ==
    /\ spc = "done"
    /\ Len(GuestFetches) = 2
    /\ results[GuestIndex(1)].valid = 1
    /\ GuestFetches[2].start = 35
    /\ Len(results) = Len(fetch_log) /\ CameBackEmpty(Len(results))
    /\ Len(yielded) = 1 /\ max_results = 2

\* --- _enrich_with_details
SummaryFieldNames == {"jobId", "title", "company", "companyUrl", "location",
                      "postedDate", "postedDateTimestamp", "url"}

\* C22: enriching a job from its detail page changes none of jobId, title,
\* company, companyUrl, location, postedDate, postedDateTimestamp and url,
\* keeps a non-empty salary of the card, and takes the salary of the
\* detail page only when the card had none
C22_EnrichFrame ==
    \A out \in job_out :
        /\ \A f \in SummaryFieldNames :
              /\ Get(out, f) = Get(job_in, f)
              /\ f \in DOMAIN out <=> f \in DOMAIN job_in
        /\ Get(job_in, "salary") # "" => Get(out, "salary") = Get(job_in, "salary")
        /\ Get(job_in, "salary") = "" =>
              Get(out, "salary") = (IF html_in.detail.salary = {}
                                    THEN ""
                                    ELSE CHOOSE v \in html_in.detail.salary : TRUE)
C22_Witness ==
    /\ Get(job_in, "salary") = "$90k"
    /\ html_in.detail.salary = {"$120k"}
    /\ html_in.detail.description # {}
    /\ \E out \in job_out :
          /\ Get(out, "salary") = "$90k"
          /\ Get(out, "description") # ""
          /\ Get(out, "jobId") = "102"

CriteriaFieldNames == {"seniorityLevel", "employmentType", "jobFunction",
                       "industries"}
\* the field an item is to set: none without a heading or without a value,
\* else the first of seniority, employment/type, function, industr that
\* its heading holds
RouteOf(item) ==
    IF item.heading = {} \/ item.value = {}
    THEN ""
    ELSE LET ks == CHOOSE h \in item.heading : TRUE IN
         CASE "seniority" \in ks -> "seniorityLevel"
           [] "seniority" \notin ks /\ ({"employment", "type"} \cap ks # {}) ->
                "employmentType"
           [] {"seniority", "employment", "type"} \cap ks = {}
              /\ "function" \in ks -> "jobFunction"
           [] {"seniority", "employment", "type", "function"} \cap ks = {}
              /\ "industr" \in ks -> "industries"
           [] OTHER -> ""
RoutedTo(items, f) == {i \in 1..Len(items) : RouteOf(items[i]) = f}

\* C23: after the criteria list is processed, each of seniorityLevel,
\* employmentType, jobFunction and industries holds the value of the last
\* item routed to it, an item being routed by the first keyword, in the
\* order seniority, employment/type, function, industr, that its heading
\* holds; a field no item is routed to is left as it was, and no other key
\* of the job is set, so an item whose heading matches nothing changes
\* nothing
C23_CriteriaRouting ==
    \A out \in job_out : \A items \in html_in.detail.criteria :
        /\ \A f \in CriteriaFieldNames :
              IF RoutedTo(items, f) = {}
              THEN /\ Get(out, f) = Get(job_in, f)
                   /\ f \in DOMAIN out <=> f \in DOMAIN job_in
              ELSE LET last == CHOOSE i \in RoutedTo(items, f) :
                                   \A j \in RoutedTo(items, f) : j <= i
                   IN {Get(out, f)} = items[last].value
        /\ html_in.detail = [EmptyDetail EXCEPT !.criteria = {items}] =>
              DOMAIN out = DOMAIN job_in
                           \cup {f \in CriteriaFieldNames : RoutedTo(items, f) # {}}
C23_Witness ==
    /\ \E items \in html_in.detail.criteria :
          /\ Len(items) = 2
          /\ items[1].heading = {{"function", "seniority"}}
          /\ items[2].heading = {{"employment", "seniority"}}
          /\ items[1].value # {} /\ items[2].value # {}
    /\ \E out \in job_out :
          /\ Get(out, "seniorityLevel") = "2"
          /\ "jobFunction" \notin DOMAIN out
          /\ "employmentType" \notin DOMAIN out

\* --- fetch_html: the sleep after the last attempt
IsRetryable(o) == IsStatus(o, {429, 403}) \/ IsServerFailure(o)
AllRetryable == \A i \in 1..Len(outcomes) : IsRetryable(outcomes[i])

\* C24: in fetch_html every attempt that ends in 429, 403, a status >= 500,
\* a timeout or a transport error is followed by a backoff sleep, the last
\* allowed attempt too: the sleeps are as many as the retryable failures,
\* a call whose MAX_RETRIES attempts all fail this way sleeps 3 times and
\* returns None only when the third sleep is over, and for 429 and 403 the
\* sleeps are 15, 30 and 60
C24_SleepAfterLastAttempt ==
    /\ Len(sleeps) = Cardinality({i \in 1..Len(outcomes) : IsRetryable(outcomes[i])})
    /\ (outcomes # <<>> /\ IsRetryable(Last(outcomes)) /\ Len(outcomes) = 3) =>
          /\ Len(sleeps) = 3
          /\ (pc[Scraper] = "backoff" /\ remaining[Scraper] > 0) =>
                fetch_result = Pending
          /\ Done => fetch_result = None /\ remaining[Scraper] = 0
    /\ (Done /\ AllRetryable) => Len(outcomes) = 3 /\ Len(sleeps) = 3
    /\ (Done /\ AllRateLimited) => sleeps = <<15, 30, 60>>
C24_Witness ==
    /\ Done /\ fetch_result = None
    /\ \A i \in 1..3 : IsStatus(outcomes[i], {429})
    /\ sleeps = <<15, 30, 60>>

\* --- scrape(): max_results of 0 or less
\* C25: with max_results <= 0 scrape() yields no record and fetches no
\* guest-API page and no detail page, but it does fetch the first page
\* before it ends
C25_NoResultsStillFetchesFirstPage ==
    max_results <= 0 =>
        /\ yielded = <<>>
        /\ GuestFetches = <<>> /\ DetailFetches = <<>>
        /\ fetch_log # <<>> => fetch_log = <<SearchUrl>>
        /\ spc = "done" => fetch_log = <<SearchUrl>> /\ Len(results) = 1
C25_Witness ==
    /\ spc = "done"
    /\ max_results = -1 /\ fetch_job_details
    /\ first_page.kind = "search" /\ first_page.valid = 2
    /\ total_results = {}
    /\ fetch_log = <<SearchUrl>>

\* --- scrape(): a 200 response with an empty body
\* C26: a fetch that returns the empty body of a 200 response is handled
\* like one that returns None: for the first page scrape() ends with no
\* record and no other fetch, for a guest-API page it is the last fetch
\* of the run, and for a detail page the card's summary is yielded as it
\* was parsed, with every detail field empty, and the run goes on
C26_EmptyBodyLikeAbsent ==
    /\ [](\A i \in 1..Len(results) :
            results[i].kind = "empty" =>
                /\ fetch_log[i] = SearchUrl =>
                      spc = "done" /\ yielded = <<>> /\ fetch_log = <<SearchUrl>>
                /\ IsGuest(fetch_log[i]) =>
                      spc = "done" /\ i = Len(fetch_log)
                /\ IsDetail(fetch_log[i]) =>
                      \E k \in 1..Len(yielded) :
                          /\ DetailIndex(k) = i
                          /\ yielded[k].jobId = fetch_log[i].job
                          /\ NoDetailFields(yielded[k]))
    /\ [][(/\ spc \in {"enrich1", "enrich2"}
           /\ fetch_result.kind = "empty"
           /\ spc' # spc) =>
              /\ yielded' = Append(yielded, FormatJobCard(Head(jobs)))
              /\ spc' \in Yields]_vars
C26_Witness ==
    /\ spc = "done" /\ max_results = 2
    /\ Len(results) = 3
    /\ results[1].kind = "search"
    /\ IsDetail(fetch_log[2]) /\ results[2].kind = "empty"
    /\ IsGuest(fetch_log[3]) /\ results[3].kind = "empty"
    /\ Len(yielded) = 1 /\ yielded[1].description = ""

====
